---- MODULE Spec2Model ----
(***************************************************************************)
(* ironfish-frost: the third round of the distributed key generation       *)
(* (src/dkg/round3.rs) and the authenticated signing commitment            *)
(* (src/signing_commitment.rs).                                            *)
(*                                                                         *)
(* Both files are pure functions.  The DKG specification (Spec) runs one   *)
(* session round1 -> round2 -> round3 for every participant and lets an    *)
(* orchestrator assemble, and an adversary edit, the package lists of a    *)
(* round3 call.  The signing commitment specification (SpecSC) creates,    *)
(* serializes, alters and parses commitments.                              *)
(*                                                                         *)
(* Cryptography is symbolic: a commitment to a polynomial is the           *)
(* polynomial over a small ring, a ciphertext is (recipients, plaintext),  *)
(* a signature verifies iff it is the signature the owner of the identity  *)
(* computes over the same bytes.  The checksum hasher is a concrete        *)
(* rolling hash over the bytes written to it.                              *)
(***************************************************************************)
EXTENDS Integers, Sequences, FiniteSets, TLC

\* ------------------------------------------------------------------ bounds
\* Largest number of participants of a DKG session.
MaxSigners == 3
\* Number of edits the adversary may apply to the inputs of one round3 call.
MaxMutations == 2
\* Entropy seeds of a session: 0..MaxSeed.
MaxSeed == 1
\* Order of the ring the threshold primitive computes in.
FieldOrder == 7
\* Number of signers that build signing commitments; they hold the secrets
\* 1..MaxSigningParticipants.
MaxSigningParticipants == 2
\* Signing shares of a commitment: 0..MaxShare.
MaxShare == 1
\* Transaction hashes of a commitment: the one-byte strings <<1>>..<<MaxTx>>.
MaxTx == 2
\* Longest list of signing participants handed to a commitment.
MaxSignerList == 2

\* ------------------------------------------------------- program constants
NONCE_COMMITMENT_LEN == 32
IDENTITY_LEN == 129
CHECKSUM_LEN == 8
SIGNATURE_BYTE_SIZE == 64
AUTHENTICATED_DATA_LEN == IDENTITY_LEN + NONCE_COMMITMENT_LEN * 2 + CHECKSUM_LEN
SIGNING_COMMITMENT_LEN == AUTHENTICATED_DATA_LEN + SIGNATURE_BYTE_SIZE

\* ------------------------------------------------------------------ state
VARIABLES
    min_signers,   \* threshold t of the session
    max_signers,   \* number n of participants; the participants hold secrets 1..n
    seed,          \* entropy of the session
    r1sec,         \* participant -> its Round1 secret package
    r1pub,         \* participant -> the Round1 public package it broadcast
    r2sec,         \* participant -> its Round2 secret package
    r2pub,         \* participant -> the Round2 public packages it sent
    keys,          \* participant -> result of its round3 call on the session's packages
    call,          \* inputs assembled for one further round3 call
    ret,           \* result of round3 on `call`
    sc             \* state of the signing commitment (see SpecSC)

dkgVars == <<min_signers, max_signers, seed, r1sec, r1pub, r2sec, r2pub, keys, call, ret>>
vars == <<min_signers, max_signers, seed, r1sec, r1pub, r2sec, r2pub, keys, call, ret, sc>>

\* ---------------------------------------------------------------- helpers
Range(s) == {s[i] : i \in DOMAIN s}

Max(a, b) == IF a >= b THEN a ELSE b

EmptyMap == [x \in {} |-> 0]

\* BTreeMap::insert
MapInsert(m, k, v) == [x \in (DOMAIN m) \cup {k} |-> IF x = k THEN v ELSE m[x]]

\* BTreeMap::remove
MapRemove(m, k) == [x \in (DOMAIN m) \ {k} |-> m[x]]

RECURSIVE SumOver(_, _)
SumOver(f, S) ==
    IF S = {} THEN 0
    ELSE LET x == CHOOSE y \in S : TRUE IN f[x] + SumOver(f, S \ {x})

\* Insertion of x into the sorted sequence of integers s.
RECURSIVE SortedInsert(_, _)
SortedInsert(s, x) ==
    IF s = <<>> THEN <<x>>
    ELSE IF x < Head(s) THEN <<x>> \o s
    ELSE <<Head(s)>> \o SortedInsert(Tail(s), x)

\* slice::sort_unstable on a list of integers.
RECURSIVE Sort(_)
Sort(s) ==
    IF s = <<>> THEN <<>>
    ELSE SortedInsert(Sort(SubSeq(s, 1, Len(s) - 1)), s[Len(s)])

\* The elements of a set of integers in increasing order.
SetToSortedSeq(S) ==
    [i \in 1..Cardinality(S) |-> CHOOSE r \in S : Cardinality({q \in S : q < r}) = i - 1]

\* Vec::dedup: removes consecutive repeated elements.
RECURSIVE Dedup(_)
Dedup(s) ==
    IF Len(s) <= 1 THEN s
    ELSE IF s[1] = s[2] THEN Dedup(Tail(s))
    ELSE <<s[1]>> \o Dedup(Tail(s))

\* to_le_bytes of an unsigned integer, `width` bytes.
RECURSIVE ToLeBytes(_, _)
ToLeBytes(v, width) ==
    IF width = 0 THEN <<>> ELSE <<v % 256>> \o ToLeBytes(v \div 256, width - 1)

RECURSIVE FromLeBytes(_)
FromLeBytes(bytes) ==
    IF bytes = <<>> THEN 0 ELSE bytes[1] + 256 * FromLeBytes(Tail(bytes))

\* ------------------------------------------------- participant collaborator
\* Secrets are 1..MaxSigners + 1: the participants of the session and one outsider.
Secrets == 1..(MaxSigners + 1)

\* Secret::to_identity.  Identities are totally ordered; the order of the
\* identities is not the order of the secrets.
to_identity(secret) == (secret * 3) % 7

Identities == {to_identity(s) : s \in Secrets}

SecretOf(identity) == CHOOSE s \in Secrets : to_identity(s) = identity

\* Identity::serialize: IDENTITY_LEN bytes.
IdentitySerialize(identity) ==
    [j \in 1..IDENTITY_LEN |-> (identity * 37 + j * 11) % 256]

\* Identity::to_frost_identifier: a nonzero element of the primitive's ring.
to_frost_identifier(identity) == ((identity * 4) % 7) % FieldOrder

\* ------------------------------------------------------ checksum collaborator
\* ChecksumHasher: a rolling hash of the bytes written; the state is
\* <<h1, h2>>, the digest of a byte string is <<length, h1, h2>> from zero.
HasherNew == <<0, 0>>

RECURSIVE PowMod(_, _, _)
PowMod(b, e, m) ==
    IF e = 0 THEN 1
    ELSE IF e % 2 = 0 THEN LET h == PowMod(b, e \div 2, m) IN (h * h) % m
    ELSE (b * PowMod(b, e - 1, m)) % m

\* The hasher state after d2 is written to the state d1 (digests compose).
DigestConcat(d1, d2) ==
    << d1[1] + d2[1],
       (d1[2] * PowMod(257, d2[1], 30011) + d2[2]) % 30011,
       (d1[3] * PowMod(263, d2[1], 30013) + d2[3]) % 30013 >>

\* The digest of a byte string: each byte b takes the state h to h * mul + b + 1.
RECURSIVE BytesDigest(_)
BytesDigest(bytes) ==
    LET n == Len(bytes)
    IN  IF n = 0 THEN <<0, 0, 0>>
        ELSE IF n = 1 THEN <<1, (bytes[1] + 1) % 30011, (bytes[1] + 1) % 30013>>
        ELSE DigestConcat(BytesDigest(SubSeq(bytes, 1, n \div 2)),
                          BytesDigest(SubSeq(bytes, n \div 2 + 1, n)))

\* Hasher::write of a byte string whose digest is d.
HasherWriteDigest(h, d) ==
    LET r == DigestConcat(<<0, h[1], h[2]>>, d) IN <<r[2], r[3]>>

HasherWrite(h, bytes) == HasherWriteDigest(h, BytesDigest(bytes))

IdentityDigest == [id \in Identities |-> BytesDigest(IdentitySerialize(id))]

HasherWriteIdentity(h, identity) == HasherWriteDigest(h, IdentityDigest[identity])

\* Hasher::finish: the 64-bit checksum, as four 16-bit limbs, least significant first.
HasherFinish(h) == <<h[1], 0, h[2], 0>>

\* Faulty variant: the checksum most significant byte first.
ChecksumToBeBytes(c) ==
    [j \in 1..CHECKSUM_LEN |->
        (ToLeBytes(c[1], 2) \o ToLeBytes(c[2], 2) \o ToLeBytes(c[3], 2)
            \o ToLeBytes(c[4], 2))[CHECKSUM_LEN + 1 - j]]

\* u64::to_le_bytes
ChecksumToLeBytes(c) ==
    ToLeBytes(c[1], 2) \o ToLeBytes(c[2], 2) \o ToLeBytes(c[3], 2) \o ToLeBytes(c[4], 2)

\* u64::from_le_bytes
ChecksumFromLeBytes(b) ==
    << FromLeBytes(SubSeq(b, 1, 2)), FromLeBytes(SubSeq(b, 3, 4)),
       FromLeBytes(SubSeq(b, 5, 6)), FromLeBytes(SubSeq(b, 7, 8)) >>

RECURSIVE HasherWriteIdentities(_, _)
HasherWriteIdentities(h, ids) ==
    IF ids = <<>> THEN h
    ELSE HasherWriteIdentities(HasherWriteIdentity(h, Head(ids)), Tail(ids))

\* Faulty variant: the list is not sorted before the repetitions are removed.
CanonicalIdentitiesUnsorted(ids) == Dedup(ids)

\* sort_unstable + dedup of a list of identities.
CanonicalIdentities(ids) == Dedup(Sort(ids))

\* ------------------------------------------------------------- results
Ok(v) == [kind |-> "Ok", value |-> v]

Err(e, m) == [kind |-> "Err", err |-> e, msg |-> m]

\* A panic: expect() on None or Err, or a failed assert_eq!.
Panic(m) == [kind |-> "Panic", msg |-> m]

\* ------------------------------------------------ threshold primitive
\* A polynomial is the sequence of its min_signers coefficients; the
\* commitment to a polynomial stands for the polynomial itself.
RECURSIVE EvalFrom(_, _, _)
EvalFrom(coeffs, x, m) ==
    IF m > Len(coeffs) THEN 0
    ELSE (coeffs[m] + x * EvalFrom(coeffs, x, m + 1)) % FieldOrder

\* The value of the polynomial at x.
Eval(coeffs, x) == EvalFrom(coeffs, x, 1)

\* The entropy a participant draws in round1.
Entropy(sd, secret) == sd * 3 + secret

\* part1: the polynomial generated from the entropy.
part1(t, entropy) == [m \in 1..t |-> (entropy * m + m * m + 1) % FieldOrder]

\* The sum of the commitments of all participants.
GroupCommitment(own, round1_packages) ==
    [m \in 1..Len(own) |->
        (own[m] + SumOver([i \in DOMAIN round1_packages |->
                              IF m <= Len(round1_packages[i]) THEN round1_packages[i][m] ELSE 0],
                          DOMAIN round1_packages)) % FieldOrder]

\* frost::keys::dkg::part3
part3(round2_secret_package, round1_packages, round2_packages) ==
    LET sp == round2_secret_package
        group == GroupCommitment(sp.commitment, round1_packages)
        all == (DOMAIN round1_packages) \cup {sp.identifier}
    IN  IF Cardinality(DOMAIN round1_packages) # sp.max_signers - 1
        THEN Err("FrostError", "IncorrectNumberOfPackages")
        ELSE IF Cardinality(DOMAIN round2_packages) # Cardinality(DOMAIN round1_packages)
        THEN Err("FrostError", "IncorrectNumberOfPackages")
        ELSE IF \E sender \in DOMAIN round2_packages : sender \notin DOMAIN round1_packages
        THEN Err("FrostError", "PackageNotFound")
        ELSE IF \E sender \in DOMAIN round2_packages :
                   round2_packages[sender] # Eval(round1_packages[sender], sp.identifier)
        THEN Err("FrostError", "InvalidSecretShare")
        ELSE Ok([key_package |->
                    [identifier |-> sp.identifier,
                     signing_share |-> (sp.secret_share
                                        + SumOver(round2_packages, DOMAIN round2_packages)) % FieldOrder,
                     verifying_share |-> Eval(group, sp.identifier),
                     verifying_key |-> group[1],
                     min_signers |-> sp.min_signers],
                 public_key_package |->
                    [verifying_shares |-> [f \in all |-> Eval(group, f)],
                     verifying_key |-> group[1]]])

\* ------------------------------------------------ group secret key shards
ShardBits == 3

\* The shard a participant generates from its entropy.
GroupSecretKeyShardRandom(entropy) ==
    [b \in 1..ShardBits |-> ((entropy * 5 + 3) \div (2 ^ (b - 1))) % 2]

\* multienc encryption of a shard to a list of recipients.
EncryptShard(shard, recipients) == [recipients |-> recipients, plaintext |-> shard]

\* PublicPackage::group_secret_key_shard: decryption with the caller's secret.
group_secret_key_shard(pkg, secret) ==
    IF to_identity(secret) \in pkg.gsk_shard.recipients
    THEN Ok(pkg.gsk_shard.plaintext)
    ELSE Err("DecryptionError", "cannot decrypt")

\* GroupSecretKeyShard::combine: bitwise exclusive or of the shards.
RECURSIVE GroupSecretKeyShardCombine(_)
GroupSecretKeyShardCombine(shards) ==
    IF shards = <<>> THEN [b \in 1..ShardBits |-> 0]
    ELSE LET rest == GroupSecretKeyShardCombine(Tail(shards))
         IN [b \in 1..ShardBits |-> (Head(shards)[b] + rest[b]) % 2]

\* ------------------------------------------------------------ DKG round 1
\* round1::input_checksum: the checksum of (min_signers, participant set).
round1_input_checksum(t, identities) ==
    HasherFinish(HasherWriteIdentities(HasherWrite(HasherNew, ToLeBytes(t, 2)),
                                       CanonicalIdentities(identities)))

\* round1::round1: the secret package and the broadcast public package.
round1(identity, t, identities, entropy) ==
    [secret_package |->
        [identifier |-> to_frost_identifier(identity),
         coefficients |-> part1(t, entropy),
         min_signers |-> t,
         max_signers |-> Len(identities)],
     public_package |->
        [identity |-> identity,
         frost_package |-> part1(t, entropy),
         gsk_shard |-> EncryptShard(GroupSecretKeyShardRandom(entropy), Range(identities)),
         checksum |-> round1_input_checksum(t, identities)]]

\* round1::PublicPackage::serialize, without the leading identity.
PublicPackageTail(pkg) ==
    <<Len(pkg.frost_package)>> \o pkg.frost_package
        \o <<Cardinality(pkg.gsk_shard.recipients)>>
        \o SetToSortedSeq(pkg.gsk_shard.recipients)
        \o pkg.gsk_shard.plaintext
        \o ChecksumToLeBytes(pkg.checksum)

\* Insertion of a package into a list sorted by identity.
RECURSIVE SortedInsertPackage(_, _)
SortedInsertPackage(s, x) ==
    IF s = <<>> THEN <<x>>
    ELSE IF x.identity < Head(s).identity THEN <<x>> \o s
    ELSE <<Head(s)>> \o SortedInsertPackage(Tail(s), x)

RECURSIVE SortPackages(_)
SortPackages(s) ==
    IF s = <<>> THEN <<>>
    ELSE SortedInsertPackage(SortPackages(SubSeq(s, 1, Len(s) - 1)), s[Len(s)])

RECURSIVE HasherWritePackages(_, _)
HasherWritePackages(h, pkgs) ==
    IF pkgs = <<>> THEN h
    ELSE HasherWritePackages(
             HasherWrite(HasherWriteIdentity(h, Head(pkgs).identity), PublicPackageTail(Head(pkgs))),
             Tail(pkgs))

\* dkg::utils::build_round1_frost_packages: the identities and the map
\* identifier -> Round1 payload of the supplied packages.
RECURSIVE build_round1_loop(_, _, _)
build_round1_loop(pkgs, expected, acc) ==
    IF pkgs = <<>> THEN Ok(acc)
    ELSE LET pkg == Head(pkgs)
             fid == to_frost_identifier(pkg.identity)
         IN  IF pkg.checksum # expected
             THEN Err("ChecksumError", "DkgPublicPackageError")
             ELSE IF fid \in DOMAIN acc
             THEN Err("InvalidInput", "multiple public packages provided for identity")
             ELSE build_round1_loop(Tail(pkgs), expected, MapInsert(acc, fid, pkg.frost_package))

build_round1_frost_packages(round1_public_packages, t, n) ==
    IF Len(round1_public_packages) # n
    THEN Err("InvalidInput", "expected max_signers public packages")
    ELSE build_round1_loop(
             round1_public_packages,
             round1_input_checksum(t, [i \in DOMAIN round1_public_packages |->
                                          round1_public_packages[i].identity]),
             EmptyMap)

\* ------------------------------------------------------------ DKG round 2
\* round2::input_checksum: the checksum of the set of Round1 public packages.
round2_input_checksum(round1_public_packages) ==
    HasherFinish(HasherWritePackages(HasherNew, Dedup(SortPackages(round1_public_packages))))

\* round2::get_secret_package_signers
get_secret_package_signers(round2_secret_package) ==
    <<round2_secret_package.min_signers, round2_secret_package.max_signers>>

\* round2::round2: the Round2 secret package and one public package per
\* other participant.
round2(identity, round1_secret_package, round1_public_packages) ==
    LET sp == round1_secret_package
        built == build_round1_frost_packages(round1_public_packages, sp.min_signers, sp.max_signers)
        others == {i \in DOMAIN round1_public_packages :
                      round1_public_packages[i].identity # identity}
    IN  IF built.kind # "Ok" THEN built
        ELSE Ok([secret_package |->
                    [identifier |-> sp.identifier,
                     commitment |-> sp.coefficients,
                     secret_share |-> Eval(sp.coefficients, sp.identifier),
                     min_signers |-> sp.min_signers,
                     max_signers |-> sp.max_signers],
                 public_packages |->
                    {[sender_identity |-> identity,
                      recipient_identity |-> round1_public_packages[i].identity,
                      frost_package |-> Eval(sp.coefficients,
                                             to_frost_identifier(round1_public_packages[i].identity)),
                      checksum |-> round2_input_checksum(round1_public_packages)] : i \in others}])

\* ------------------------------------------ faulty variants of round 3
\* The variants below each leave out one step of round3; the properties of
\* round3 do not hold of them.

\* The loop body without the checksum comparison of lines 55-57.
round3_accept_package_without_checksum(identity, expected_round2_checksum, round2_frost_packages, public_package) ==
    LET frost_identifier == to_frost_identifier(public_package.sender_identity)
        frost_package == public_package.frost_package
    IN  IF identity # public_package.recipient_identity
        THEN Err("InvalidInput", "public package does not have the correct recipient identity")
        ELSE IF frost_identifier \in DOMAIN round2_frost_packages
        THEN Err("InvalidInput", "multiple public packages provided for identity")
        ELSE Ok(MapInsert(round2_frost_packages, frost_identifier, frost_package))

\* The loop body without the recipient comparison of lines 59-64.
round3_accept_package_without_recipient(identity, expected_round2_checksum, round2_frost_packages, public_package) ==
    LET frost_identifier == to_frost_identifier(public_package.sender_identity)
        frost_package == public_package.frost_package
    IN  IF public_package.checksum # expected_round2_checksum
        THEN Err("ChecksumError", "DkgPublicPackageError")
        ELSE IF frost_identifier \in DOMAIN round2_frost_packages
        THEN Err("InvalidInput", "multiple public packages provided for identity")
        ELSE Ok(MapInsert(round2_frost_packages, frost_identifier, frost_package))

\* The loop body without the duplicate test of lines 69-78: a later package
\* of a sender overwrites the earlier one.
round3_accept_package_overwriting(identity, expected_round2_checksum, round2_frost_packages, public_package) ==
    LET frost_identifier == to_frost_identifier(public_package.sender_identity)
        frost_package == public_package.frost_package
    IN  IF public_package.checksum # expected_round2_checksum
        THEN Err("ChecksumError", "DkgPublicPackageError")
        ELSE IF identity # public_package.recipient_identity
        THEN Err("InvalidInput", "public package does not have the correct recipient identity")
        ELSE Ok(MapInsert(round2_frost_packages, frost_identifier, frost_package))

\* The loop body with the recipient and duplicate tests before the checksum
\* comparison.
round3_accept_package_checksum_last(identity, expected_round2_checksum, round2_frost_packages, public_package) ==
    LET frost_identifier == to_frost_identifier(public_package.sender_identity)
        frost_package == public_package.frost_package
    IN  IF identity # public_package.recipient_identity
        THEN Err("InvalidInput", "public package does not have the correct recipient identity")
        ELSE IF frost_identifier \in DOMAIN round2_frost_packages
        THEN Err("InvalidInput", "multiple public packages provided for identity")
        ELSE IF public_package.checksum # expected_round2_checksum
        THEN Err("ChecksumError", "DkgPublicPackageError")
        ELSE Ok(MapInsert(round2_frost_packages, frost_identifier, frost_package))

\* Round1 validation against the number of the other participants.
round3_round1_packages_of_others(secret, round2_secret_package, round1_public_packages) ==
    LET identity == to_identity(secret)
        signers == get_secret_package_signers(round2_secret_package)
        built == build_round1_frost_packages(round1_public_packages, signers[1], signers[2] - 1)
    IN  IF built.kind # "Ok" THEN built
        ELSE IF to_frost_identifier(identity) \notin DOMAIN built.value
        THEN Panic("missing public package for identity")
        ELSE Ok(MapRemove(built.value, to_frost_identifier(identity)))

\* The Round1 payload map taken from the list as it is, without the
\* validation of lines 41-42.
round3_round1_packages_unvalidated(secret, round2_secret_package, round1_public_packages) ==
    LET identity == to_identity(secret)
        supplied == Range(round1_public_packages)
        built == [id \in {to_frost_identifier(pkg.identity) : pkg \in supplied} |->
                     (CHOOSE pkg \in supplied :
                          to_frost_identifier(pkg.identity) = id).frost_package]
    IN  IF to_frost_identifier(identity) \notin DOMAIN built
        THEN Panic("missing public package for identity")
        ELSE Ok(MapRemove(built, to_frost_identifier(identity)))

\* The shards of the other participants' Round1 packages only.
RECURSIVE round3_gsk_shards_of_others(_, _)
round3_gsk_shards_of_others(secret, round1_public_packages) ==
    IF round1_public_packages = <<>> THEN Ok(<<>>)
    ELSE LET pkg == Head(round1_public_packages)
             shard == group_secret_key_shard(pkg, secret)
             rest == round3_gsk_shards_of_others(secret, Tail(round1_public_packages))
         IN  IF pkg.identity = to_identity(secret) THEN rest
             ELSE IF shard.kind # "Ok" THEN Panic("cannot decrypt gsk shard")
             ELSE IF rest.kind # "Ok" THEN rest
             ELSE Ok(<<shard.value>> \o rest.value)

\* The Round1 payload map with the caller's entry left in.
round3_round1_packages_with_own(secret, round2_secret_package, round1_public_packages) ==
    LET identity == to_identity(secret)
        signers == get_secret_package_signers(round2_secret_package)
        built == build_round1_frost_packages(round1_public_packages, signers[1], signers[2])
    IN  IF built.kind # "Ok" THEN built
        ELSE IF to_frost_identifier(identity) \notin DOMAIN built.value
        THEN Panic("missing public package for identity")
        ELSE Ok(built.value)

\* ------------------------------------------------------------ DKG round 3
\* round3, lines 36-47: the Round1 payload map without the caller's entry.
round3_round1_packages(secret, round2_secret_package, round1_public_packages) ==
    LET identity == to_identity(secret)
        signers == get_secret_package_signers(round2_secret_package)
        built == build_round1_frost_packages(round1_public_packages, signers[1], signers[2])
    IN  IF built.kind # "Ok" THEN built
        ELSE IF to_frost_identifier(identity) \notin DOMAIN built.value
        THEN Panic("missing public package for identity")
        ELSE Ok(MapRemove(built.value, to_frost_identifier(identity)))

\* round3, lines 55-82: the body of the loop over the Round2 public packages.
round3_accept_package(identity, expected_round2_checksum, round2_frost_packages, public_package) ==
    LET frost_identifier == to_frost_identifier(public_package.sender_identity)
        frost_package == public_package.frost_package
    IN  IF public_package.checksum # expected_round2_checksum
        THEN Err("ChecksumError", "DkgPublicPackageError")
        ELSE IF identity # public_package.recipient_identity
        THEN Err("InvalidInput", "public package does not have the correct recipient identity")
        ELSE IF frost_identifier \in DOMAIN round2_frost_packages
        THEN Err("InvalidInput", "multiple public packages provided for identity")
        ELSE Ok(MapInsert(MapInsert(round2_frost_packages, frost_identifier, frost_package),
                          frost_identifier, frost_package))

\* round3, lines 53-83: the map identifier -> Round2 payload.
RECURSIVE round3_round2_packages(_, _, _, _)
round3_round2_packages(identity, expected_round2_checksum, round2_frost_packages, pkgs) ==
    IF pkgs = <<>> THEN Ok(round2_frost_packages)
    ELSE LET step == round3_accept_package(identity, expected_round2_checksum,
                                           round2_frost_packages, Head(pkgs))
         IN  IF step.kind # "Ok" THEN step
             ELSE round3_round2_packages(identity, expected_round2_checksum, step.value, Tail(pkgs))

\* The shard of the first Round1 public package of the list only.
round3_gsk_shards_first(secret, round1_public_packages) ==
    IF round1_public_packages = <<>> THEN Ok(<<>>)
    ELSE LET shard == group_secret_key_shard(Head(round1_public_packages), secret)
         IN  IF shard.kind # "Ok" THEN Panic("cannot decrypt gsk shard")
             ELSE Ok(<<shard.value>>)

\* round3, lines 94-100: the decrypted shard of every Round1 public package.
RECURSIVE round3_gsk_shards(_, _)
round3_gsk_shards(secret, round1_public_packages) ==
    IF round1_public_packages = <<>> THEN Ok(<<>>)
    ELSE LET shard == group_secret_key_shard(Head(round1_public_packages), secret)
             rest == round3_gsk_shards(secret, Tail(round1_public_packages))
         IN  IF shard.kind # "Ok" THEN Panic("cannot decrypt gsk shard")
             ELSE IF rest.kind # "Ok" THEN rest
             ELSE Ok(<<shard.value>> \o rest.value)

\* The finalize step with the error of part3 returned as InvalidInput.
round3_finalize_invalid_input(secret, round2_secret_package, round1_public_packages, round1_frost_packages, round2_frost_packages) ==
    IF Cardinality(DOMAIN round1_frost_packages) # Cardinality(DOMAIN round2_frost_packages)
    THEN Panic("assertion failed: round1_frost_packages.len() == round2_frost_packages.len()")
    ELSE LET finalized == part3(round2_secret_package, round1_frost_packages, round2_frost_packages)
             gsk_shards == round3_gsk_shards(secret, round1_public_packages)
         IN  IF finalized.kind # "Ok" THEN Err("InvalidInput", finalized.msg)
             ELSE IF gsk_shards.kind # "Ok" THEN gsk_shards
             ELSE Ok([key_package |-> finalized.value.key_package,
                      public_key_package |-> finalized.value.public_key_package,
                      gsk |-> GroupSecretKeyShardCombine(gsk_shards.value)])

\* round3, lines 85-103: the count check, part3 and the group secret key.
round3_finalize(secret, round2_secret_package, round1_public_packages, round1_frost_packages, round2_frost_packages) ==
    IF Cardinality(DOMAIN round1_frost_packages) # Cardinality(DOMAIN round2_frost_packages)
    THEN Panic("assertion failed: round1_frost_packages.len() == round2_frost_packages.len()")
    ELSE LET finalized == part3(round2_secret_package, round1_frost_packages, round2_frost_packages)
             gsk_shards == round3_gsk_shards(secret, round1_public_packages)
         IN  IF finalized.kind # "Ok" THEN finalized
             ELSE IF gsk_shards.kind # "Ok" THEN gsk_shards
             ELSE Ok([key_package |-> finalized.value.key_package,
                      public_key_package |-> finalized.value.public_key_package,
                      gsk |-> GroupSecretKeyShardCombine(gsk_shards.value)])

\* dkg::round3::round3
round3(secret, round2_secret_package, round1_public_packages, round2_public_packages) ==
    LET identity == to_identity(secret)
        round1_frost_packages ==
            round3_round1_packages(secret, round2_secret_package, round1_public_packages)
        expected_round2_checksum == round2_input_checksum(round1_public_packages)
        round2_frost_packages ==
            round3_round2_packages(identity, expected_round2_checksum, EmptyMap,
                                   round2_public_packages)
    IN  IF round1_frost_packages.kind # "Ok" THEN round1_frost_packages
        ELSE IF round2_frost_packages.kind # "Ok" THEN round2_frost_packages
        ELSE round3_finalize(secret, round2_secret_package, round1_public_packages,
                             round1_frost_packages.value, round2_frost_packages.value)

\* ----------------------------------------------------- signing commitment
\* Secret::sign: the 64-byte signature of the data under the secret.
SecretSign(secret, data) ==
    CHOOSE signature \in
        { [j \in 1..SIGNATURE_BYTE_SIZE |->
              CASE j = 1 -> d[2] % 256
                [] j = 2 -> d[2] \div 256
                [] j = 3 -> d[3] % 256
                [] j = 4 -> d[3] \div 256
                [] j = 5 -> secret
                [] OTHER -> (secret * 29 + d[2] + j * (d[3] + 7)) % 256]
          : d \in {BytesDigest(data)} } : TRUE

\* Identity::verify_data: the signature is the one the owner of the identity
\* computes over the data.
verify_data(identity, data, signature) ==
    IF signature = SecretSign(SecretOf(identity), data)
    THEN Ok(TRUE)
    ELSE Err("SignatureError", "signature does not verify")

\* Identity::deserialize_from: only the encoding of an identity parses.
IdentityDeserialize(bytes) ==
    IF \E id \in Identities : IdentitySerialize(id) = bytes
    THEN Ok(CHOOSE id \in Identities : IdentitySerialize(id) = bytes)
    ELSE Err("IoError", "invalid identity")

\* A nonce commitment is a curve point, held as its NONCE_COMMITMENT_LEN-byte
\* encoding; NonceCommitment::deserialize rejects the byte strings that
\* encode no point.
NonceCommitmentDeserialize(bytes) ==
    IF bytes[NONCE_COMMITMENT_LEN] < 128
    THEN Ok(bytes)
    ELSE Err("IoError", "invalid nonce commitment")

\* nonces::deterministic_signing_nonces, then SigningNonces::commitments: the
\* hiding (kind 1) and binding (kind 2) commitments derived from the signing
\* share, the transaction hash and the canonical signer set.
NonceCommitmentOf(kind, secret_share, transaction_hash, signing_participants) ==
    CHOOSE point \in
        { [j \in 1..NONCE_COMMITMENT_LEN |->
              IF j = NONCE_COMMITMENT_LEN THEN (h[1] + h[2]) % 128
              ELSE IF j = 1 THEN h[1] % 256
              ELSE IF j = 2 THEN h[1] \div 256
              ELSE IF j = 3 THEN h[2] % 256
              ELSE IF j = 4 THEN h[2] \div 256
              ELSE (h[1] * j + h[2] + kind) % 256]
          : h \in {HasherWriteIdentities(
                       HasherWrite(HasherWrite(HasherNew, <<kind, secret_share>>),
                                   transaction_hash),
                       CanonicalIdentities(signing_participants))} } : TRUE

deterministic_signing_nonces(secret_share, transaction_hash, signing_participants) ==
    [hiding |-> NonceCommitmentOf(1, secret_share, transaction_hash, signing_participants),
     binding |-> NonceCommitmentOf(2, secret_share, transaction_hash, signing_participants)]

\* signing_commitment::input_checksum
input_checksum(transaction_hash, signing_participants) ==
    HasherFinish(HasherWriteIdentities(HasherWrite(HasherNew, transaction_hash),
                                       CanonicalIdentities(signing_participants)))

\* Faulty variant: the checksum is left out of the authenticated data.
authenticated_data_without_checksum(identity, raw_commitments, checksum) ==
    IdentitySerialize(identity) \o raw_commitments.hiding \o raw_commitments.binding
        \o [j \in 1..CHECKSUM_LEN |-> 0]

\* signing_commitment::authenticated_data
authenticated_data(identity, raw_commitments, checksum) ==
    IdentitySerialize(identity) \o raw_commitments.hiding \o raw_commitments.binding
        \o ChecksumToLeBytes(checksum)

\* Faulty variant: the signature of any identity over the data is accepted.
verify_authenticity_of_any_identity(c) ==
    IF \E id \in Identities :
           verify_data(id, authenticated_data(c.identity, c.raw_commitments, c.checksum),
                       c.signature).kind = "Ok"
    THEN Ok(TRUE)
    ELSE Err("SignatureError", "signature does not verify")

\* SigningCommitment::verify_authenticity
verify_authenticity(c) ==
    verify_data(c.identity, authenticated_data(c.identity, c.raw_commitments, c.checksum),
                c.signature)

\* Faulty variant: the parts are assembled without verify_authenticity.
from_raw_parts_unverified(identity, raw_commitments, checksum, signature) ==
    Ok([identity |-> identity, raw_commitments |-> raw_commitments,
        checksum |-> checksum, signature |-> signature])

\* SigningCommitment::from_raw_parts
from_raw_parts(identity, raw_commitments, checksum, signature) ==
    LET signing_commitment ==
            [identity |-> identity, raw_commitments |-> raw_commitments,
             checksum |-> checksum, signature |-> signature]
        verified == verify_authenticity(signing_commitment)
    IN  IF verified.kind = "Ok" THEN Ok(signing_commitment) ELSE verified

\* Faulty variant: the nonces are drawn from the entropy of the environment.
from_secrets_with_random_nonces(participant_secret, secret_share, transaction_hash, signing_participants) ==
    LET identity == to_identity(participant_secret)
        raw_commitments ==
            deterministic_signing_nonces(Entropy(seed, secret_share), transaction_hash,
                                         signing_participants)
        checksum == input_checksum(transaction_hash, signing_participants)
        data == authenticated_data(identity, raw_commitments, checksum)
    IN  [identity |-> identity, raw_commitments |-> raw_commitments,
         checksum |-> checksum, signature |-> SecretSign(participant_secret, data)]

\* Faulty variant: the creator is added to the signers the checksum covers.
from_secrets_with_own_identity(participant_secret, secret_share, transaction_hash, signing_participants) ==
    LET identity == to_identity(participant_secret)
        raw_commitments ==
            deterministic_signing_nonces(secret_share, transaction_hash, signing_participants)
        checksum == input_checksum(transaction_hash, Append(signing_participants, identity))
        data == authenticated_data(identity, raw_commitments, checksum)
    IN  [identity |-> identity, raw_commitments |-> raw_commitments,
         checksum |-> checksum, signature |-> SecretSign(participant_secret, data)]

\* SigningCommitment::from_secrets
from_secrets(participant_secret, secret_share, transaction_hash, signing_participants) ==
    LET identity == to_identity(participant_secret)
        raw_commitments ==
            deterministic_signing_nonces(secret_share, transaction_hash, signing_participants)
        checksum == input_checksum(transaction_hash, signing_participants)
        data == authenticated_data(identity, raw_commitments, checksum)
    IN  [identity |-> identity, raw_commitments |-> raw_commitments,
         checksum |-> checksum, signature |-> SecretSign(participant_secret, data)]

\* SigningCommitment::verify_checksum
verify_checksum(c, transaction_hash, signing_participants) ==
    IF c.checksum = input_checksum(transaction_hash, signing_participants)
    THEN Ok(TRUE)
    ELSE Err("ChecksumError", "SigningCommitmentError")

\* Faulty variant: the identity is written before the signature.
serialize_identity_first(c) ==
    IdentitySerialize(c.identity) \o c.signature \o c.raw_commitments.hiding
        \o c.raw_commitments.binding \o ChecksumToLeBytes(c.checksum)

\* SigningCommitment::serialize (serialize_into a buffer of SIGNING_COMMITMENT_LEN bytes)
serialize(c) ==
    c.signature \o IdentitySerialize(c.identity) \o c.raw_commitments.hiding
        \o c.raw_commitments.binding \o ChecksumToLeBytes(c.checksum)

\* Read::read_exact: the next `len` bytes from position `from`, if there are that many.
ReadExact(bytes, from, len) ==
    IF Len(bytes) < from + len - 1
    THEN Err("IoError", "UnexpectedEof")
    ELSE Ok(SubSeq(bytes, from, from + len - 1))

\* SigningCommitment::deserialize_from
deserialize_from(bytes) ==
    LET signature_bytes == ReadExact(bytes, 1, SIGNATURE_BYTE_SIZE)
        identity_from == SIGNATURE_BYTE_SIZE + 1
        identity_bytes == ReadExact(bytes, identity_from, IDENTITY_LEN)
        hiding_from == identity_from + IDENTITY_LEN
        hiding_bytes == ReadExact(bytes, hiding_from, 32)
        binding_from == hiding_from + 32
        binding_bytes == ReadExact(bytes, binding_from, 32)
        checksum_from == binding_from + 32
        checksum_bytes == ReadExact(bytes, checksum_from, 8)
    IN  IF signature_bytes.kind # "Ok" THEN signature_bytes
        ELSE IF identity_bytes.kind # "Ok" THEN identity_bytes
        ELSE LET identity == IdentityDeserialize(identity_bytes.value) IN
        IF identity.kind # "Ok" THEN identity
        ELSE IF hiding_bytes.kind # "Ok" THEN hiding_bytes
        ELSE LET hiding == NonceCommitmentDeserialize(hiding_bytes.value) IN
        IF hiding.kind # "Ok" THEN hiding
        ELSE IF binding_bytes.kind # "Ok" THEN binding_bytes
        ELSE LET binding == NonceCommitmentDeserialize(binding_bytes.value) IN
        IF binding.kind # "Ok" THEN binding
        ELSE IF checksum_bytes.kind # "Ok" THEN checksum_bytes
        ELSE LET made == from_raw_parts(identity.value,
                                        [hiding |-> hiding.value, binding |-> binding.value],
                                        ChecksumFromLeBytes(checksum_bytes.value),
                                        signature_bytes.value)
             IN IF made.kind = "Ok" THEN made ELSE Err("IoError", made.err)

\* ------------------------------------------------------- the DKG session
Participants == 1..max_signers

\* The identities of the participants, as the orchestrator lists them.
SessionIdentities == [p \in 1..max_signers |-> to_identity(p)]

NoCall == [caller |-> 0, r1 |-> <<>>, r2 |-> <<>>, muts |-> 0]

NoRet == [kind |-> "None"]

SCIdle == [pc |-> "idle"]

\* All Round1 public packages of the session, in the orchestrator's order.
SessionRound1 == [p \in 1..max_signers |-> r1pub[p]]

\* The Round2 public packages sent so far to the participant p.
AddressedTo(p) ==
    {pkg \in UNION {r2pub[q] : q \in DOMAIN r2pub} : pkg.recipient_identity = to_identity(p)}

\* A list of the packages of a set of Round2 packages, by sender.
RECURSIVE Round2List(_)
Round2List(S) ==
    IF S = {} THEN <<>>
    ELSE LET pkg == CHOOSE x \in S : \A y \in S : SecretOf(x.sender_identity) <= SecretOf(y.sender_identity)
         IN <<pkg>> \o Round2List(S \ {pkg})

Init ==
    /\ max_signers \in 2..MaxSigners
    /\ min_signers \in 1..MaxSigners
    /\ min_signers <= max_signers
    /\ seed \in 0..MaxSeed
    /\ r1sec = EmptyMap
    /\ r1pub = EmptyMap
    /\ r2sec = EmptyMap
    /\ r2pub = EmptyMap
    /\ keys = EmptyMap
    /\ call = NoCall
    /\ ret = NoRet
    /\ sc = SCIdle

\* A participant runs round1 and broadcasts its public package.
Round1(p) ==
    /\ p \notin DOMAIN r1pub
    /\ LET out == round1(to_identity(p), min_signers, SessionIdentities, Entropy(seed, p))
       IN /\ r1sec' = MapInsert(r1sec, p, out.secret_package)
          /\ r1pub' = MapInsert(r1pub, p, out.public_package)
    /\ UNCHANGED <<min_signers, max_signers, seed, r2sec, r2pub, keys, call, ret, sc>>

\* A participant that holds all Round1 public packages runs round2.
Round2(p) ==
    /\ DOMAIN r1pub = Participants
    /\ p \notin DOMAIN r2sec
    /\ LET out == round2(to_identity(p), r1sec[p], SessionRound1)
       IN /\ out.kind = "Ok"
          /\ r2sec' = MapInsert(r2sec, p, out.value.secret_package)
          /\ r2pub' = MapInsert(r2pub, p, out.value.public_packages)
    /\ UNCHANGED <<min_signers, max_signers, seed, r1sec, r1pub, keys, call, ret, sc>>

\* A participant that holds all packages addressed to it runs round3.
Round3(p) ==
    /\ DOMAIN r2pub = Participants
    /\ p \notin DOMAIN keys
    /\ keys' = MapInsert(keys, p, round3(p, r2sec[p], SessionRound1, Round2List(AddressedTo(p))))
    /\ UNCHANGED <<min_signers, max_signers, seed, r1sec, r1pub, r2sec, r2pub, call, ret, sc>>

\* ------------------------------------------- inputs of a further round3 call
\* The Round1 public packages of another session: the participants with the
\* secrets 2..max_signers + 1, the same threshold, other entropy.
ForeignIdentities == [p \in 1..max_signers |-> to_identity(p + 1)]

ForeignRound1 ==
    [p \in 1..max_signers |->
        round1(to_identity(p + 1), min_signers, ForeignIdentities,
               Entropy(seed + 1, p + 1)).public_package]

\* The Round1 public packages the adversary can put into the list.
Round1Pool == Range(SessionRound1) \cup Range(ForeignRound1)

\* A Round1 public package whose shard only its sender can decrypt.
WithheldShard(pkg) == [pkg EXCEPT !.gsk_shard.recipients = {pkg.identity}]

\* A Round2 public package carrying the checksum of the other session.
ForeignChecksum(pkg) == [pkg EXCEPT !.checksum = round2_input_checksum(ForeignRound1)]

\* A Round2 public package whose share does not lie on the sender's polynomial.
WrongShare(pkg) == [pkg EXCEPT !.frost_package = (pkg.frost_package + 1) % FieldOrder]

\* A Round2 public package made up for a sender, bound to the session's Round1 set.
Forged(sender, recipient) ==
    [sender_identity |-> to_identity(sender),
     recipient_identity |-> to_identity(recipient),
     frost_package |-> 1,
     checksum |-> round2_input_checksum(SessionRound1)]

\* The Round2 public packages the adversary can put into the list of the
\* caller c: those sent to c, those c sent, and made up ones from c itself
\* and from an outsider.
Round2Pool(c) ==
    AddressedTo(c) \cup r2pub[c] \cup {Forged(c, c), Forged(max_signers + 1, c)}

ReplaceAt(s, i, x) == [s EXCEPT ![i] = x]

RemoveAt(s, i) == SubSeq(s, 1, i - 1) \o SubSeq(s, i + 1, Len(s))

\* The orchestrator assembles the inputs of a round3 call of the participant
\* c: every Round1 public package and the Round2 public packages sent to c.
Collect(c) ==
    /\ DOMAIN keys = Participants
    /\ call' = [caller |-> c, r1 |-> SessionRound1, r2 |-> Round2List(AddressedTo(c)), muts |-> 0]
    /\ call' # call
    /\ ret' = NoRet
    /\ UNCHANGED <<min_signers, max_signers, seed, r1sec, r1pub, r2sec, r2pub, keys, sc>>

CanEdit == call.caller # 0 /\ call.muts < MaxMutations

Edited(r1, r2) ==
    /\ call' = [call EXCEPT !.r1 = r1, !.r2 = r2, !.muts = call.muts + 1]
    /\ ret' = NoRet
    /\ UNCHANGED <<min_signers, max_signers, seed, r1sec, r1pub, r2sec, r2pub, keys, sc>>

\* The adversary replaces, removes or adds a Round1 public package.
ReplaceRound1(i) ==
    /\ CanEdit
    /\ i \in DOMAIN call.r1
    /\ \E pkg \in Round1Pool \ {call.r1[i]} : Edited(ReplaceAt(call.r1, i, pkg), call.r2)

RemoveRound1(i) ==
    CanEdit /\ i \in DOMAIN call.r1 /\ Edited(RemoveAt(call.r1, i), call.r2)

AppendRound1 ==
    /\ CanEdit
    /\ Len(call.r1) < MaxSigners
    /\ \E pkg \in Round1Pool : Edited(Append(call.r1, pkg), call.r2)

\* The adversary replaces, removes or adds a Round2 public package.
ReplaceRound2(i) ==
    /\ CanEdit
    /\ i \in DOMAIN call.r2
    /\ \E pkg \in Round2Pool(call.caller) \ {call.r2[i]} :
           Edited(call.r1, ReplaceAt(call.r2, i, pkg))

RemoveRound2(i) ==
    CanEdit /\ i \in DOMAIN call.r2 /\ Edited(call.r1, RemoveAt(call.r2, i))

AppendRound2 ==
    /\ CanEdit
    /\ Len(call.r2) < MaxSigners
    /\ \E pkg \in Round2Pool(call.caller) : Edited(call.r1, Append(call.r2, pkg))

\* A participant withholds the shard of its Round1 public package.
WithholdShard(i) ==
    /\ CanEdit
    /\ i \in DOMAIN call.r1
    /\ call.r1[i] # WithheldShard(call.r1[i])
    /\ Edited(ReplaceAt(call.r1, i, WithheldShard(call.r1[i])), call.r2)

\* A sender alters the checksum or the share of its Round2 public package.
TamperChecksum(i) ==
    /\ CanEdit
    /\ i \in DOMAIN call.r2
    /\ call.r2[i] # ForeignChecksum(call.r2[i])
    /\ Edited(call.r1, ReplaceAt(call.r2, i, ForeignChecksum(call.r2[i])))

TamperShare(i) ==
    /\ CanEdit
    /\ i \in DOMAIN call.r2
    /\ Edited(call.r1, ReplaceAt(call.r2, i, WrongShare(call.r2[i])))

\* The sender of a Round2 public package binds it to the Round1 packages of the call.
RebindRound2(i) ==
    /\ CanEdit
    /\ i \in DOMAIN call.r2
    /\ call.r2[i].checksum # round2_input_checksum(call.r1)
    /\ Edited(call.r1, ReplaceAt(call.r2, i,
                  [call.r2[i] EXCEPT !.checksum = round2_input_checksum(call.r1)]))

\* The caller runs round3 on the assembled inputs.
Round3Call ==
    /\ call.caller # 0
    /\ ret = NoRet
    /\ ret' = round3(call.caller, r2sec[call.caller], call.r1, call.r2)
    /\ UNCHANGED <<min_signers, max_signers, seed, r1sec, r1pub, r2sec, r2pub, keys, call, sc>>

DkgNext ==
    \/ \E p \in Participants : Round1(p)
    \/ \E p \in Participants : Round2(p)
    \/ \E p \in Participants : Round3(p)
    \/ \E c \in Participants : Collect(c)
    \/ \E i \in 1..MaxSigners : ReplaceRound1(i)
    \/ \E i \in 1..MaxSigners : RemoveRound1(i)
    \/ AppendRound1
    \/ \E i \in 1..MaxSigners : ReplaceRound2(i)
    \/ \E i \in 1..MaxSigners : RemoveRound2(i)
    \/ AppendRound2
    \/ \E i \in 1..MaxSigners : WithholdShard(i)
    \/ \E i \in 1..MaxSigners : TamperChecksum(i)
    \/ \E i \in 1..MaxSigners : TamperShare(i)
    \/ \E i \in 1..MaxSigners : RebindRound2(i)
    \/ Round3Call

Next == DkgNext

Spec == Init /\ [][Next]_vars

\* ------------------------------------------- the signing commitment session
SigningShares == 0..MaxShare

TransactionHashes == {<<t>> : t \in 1..MaxTx}

SignerSecrets == 1..MaxSigningParticipants

\* The transaction hashes a commitment is checked against: byte strings of any
\* length, among them the extensions of a hash by the bytes of an identity.
CheckedHashes ==
    TransactionHashes
        \cup {h \o IdentitySerialize(to_identity(s)) : h \in TransactionHashes, s \in SignerSecrets}

SignerIdentities == {to_identity(s) : s \in SignerSecrets}

SignerLists == UNION {[1..n -> SignerIdentities] : n \in 0..MaxSignerList}

InitSC ==
    /\ Init
    /\ max_signers = MaxSigners
    /\ min_signers = MaxSigners
    /\ seed = 0

\* A signer builds its commitment.
FromSecrets(secret, share, tx, signers) ==
    /\ sc.pc = "idle"
    /\ sc' = [pc |-> "created", secret |-> secret, share |-> share, tx |-> tx,
              signers |-> signers,
              commitment |-> from_secrets(secret, share, tx, signers)]
    /\ UNCHANGED dkgVars

\* The coordinator checks the commitment against its own inputs.
VerifyChecksum(tx, signers) ==
    /\ sc.pc = "created"
    /\ sc' = [pc |-> "checked", secret |-> sc.secret, share |-> sc.share, tx |-> sc.tx,
              signers |-> sc.signers, commitment |-> sc.commitment,
              against |-> [tx |-> tx, signers |-> signers],
              checked |-> verify_checksum(sc.commitment, tx, signers)]
    /\ UNCHANGED dkgVars

\* The signer puts its commitment on the wire.
Serialize ==
    /\ sc.pc = "created"
    /\ sc' = [pc |-> "serialized", secret |-> sc.secret, share |-> sc.share, tx |-> sc.tx,
              signers |-> sc.signers, commitment |-> sc.commitment,
              wire |-> serialize(sc.commitment), altered |-> FALSE]
    /\ UNCHANGED dkgVars

\* The wire inverts every bit of one byte.
AlterByte(i) ==
    /\ sc.pc = "serialized"
    /\ ~sc.altered
    /\ sc' = [sc EXCEPT !.wire[i] = 255 - @, !.altered = TRUE]
    /\ UNCHANGED dkgVars

\* The wire changes one byte to the next value.
IncrementByte(i) ==
    /\ sc.pc = "serialized"
    /\ ~sc.altered
    /\ sc' = [sc EXCEPT !.wire[i] = (@ + 1) % 256, !.altered = TRUE]
    /\ UNCHANGED dkgVars

\* Another secret signs the authenticated data and its signature replaces the signer's.
ReplaceSignature(other) ==
    /\ sc.pc = "serialized"
    /\ ~sc.altered
    /\ other # sc.secret
    /\ sc' = [sc EXCEPT
                !.wire = SecretSign(other, SubSeq(@, SIGNATURE_BYTE_SIZE + 1, Len(@)))
                            \o SubSeq(@, SIGNATURE_BYTE_SIZE + 1, Len(@)),
                !.altered = TRUE]
    /\ UNCHANGED dkgVars

\* An unrelated secret signs the authenticated data of the commitment; the
\* commitment with that signature in place of its own is verified.
ForgeSignature(other) ==
    /\ sc.pc = "created"
    /\ other # sc.secret
    /\ LET c == sc.commitment
           invalid_signature ==
               SecretSign(other, authenticated_data(c.identity, c.raw_commitments, c.checksum))
           invalid_commitment == [c EXCEPT !.signature = invalid_signature]
       IN  sc' = [pc |-> "forged", secret |-> sc.secret, share |-> sc.share, tx |-> sc.tx,
                  signers |-> sc.signers, commitment |-> c,
                  unrelated_secret |-> other,
                  invalid_commitment |-> invalid_commitment,
                  verified |-> verify_authenticity(invalid_commitment)]
    /\ UNCHANGED dkgVars

\* The entropy source of the environment (thread_rng) moves on.
DrawEntropy ==
    /\ sc.pc = "created"
    /\ seed < MaxSeed
    /\ seed' = seed + 1
    /\ sc' = [sc EXCEPT !.pc = "drawn"]
    /\ UNCHANGED <<min_signers, max_signers, r1sec, r1pub, r2sec, r2pub, keys, call, ret>>

\* A second commitment is built for the same transaction hash and signer
\* list, by the same or another signer, with the same or another share.
FromSecretsAgain(secret, share) ==
    /\ sc.pc = "drawn"
    /\ sc' = [pc |-> "repeated", secret |-> sc.secret, share |-> sc.share, tx |-> sc.tx,
              signers |-> sc.signers, commitment |-> sc.commitment,
              second_secret |-> secret, second_share |-> share,
              second |-> from_secrets(secret, share, sc.tx, sc.signers)]
    /\ UNCHANGED dkgVars

\* The wire loses the last byte.
DropLastByte ==
    /\ sc.pc = "serialized"
    /\ ~sc.altered
    /\ sc' = [sc EXCEPT !.wire = SubSeq(@, 1, Len(@) - 1), !.altered = TRUE]
    /\ UNCHANGED dkgVars

\* The receiver reads a commitment from the wire.
DeserializeFrom ==
    /\ sc.pc = "serialized"
    /\ sc' = [pc |-> "parsed", secret |-> sc.secret, share |-> sc.share, tx |-> sc.tx,
              signers |-> sc.signers, commitment |-> sc.commitment,
              wire |-> sc.wire, altered |-> sc.altered,
              parsed |-> deserialize_from(sc.wire)]
    /\ UNCHANGED dkgVars

NextSC ==
    \/ \E secret \in SignerSecrets, share \in SigningShares,
          tx \in TransactionHashes, signers \in SignerLists :
            FromSecrets(secret, share, tx, signers)
    \/ \E tx \in CheckedHashes, signers \in SignerLists : VerifyChecksum(tx, signers)
    \/ Serialize
    \/ \E i \in 1..SIGNING_COMMITMENT_LEN : AlterByte(i)
    \/ \E i \in 1..SIGNING_COMMITMENT_LEN : IncrementByte(i)
    \/ \E other \in Secrets : ReplaceSignature(other)
    \/ \E other \in Secrets : ForgeSignature(other)
    \/ DrawEntropy
    \/ \E secret \in SignerSecrets, share \in SigningShares : FromSecretsAgain(secret, share)
    \/ DropLastByte
    \/ DeserializeFrom

SpecSC == InitSC /\ [][NextSC]_vars

\* =================================================== properties of round3
\* A round3 call on the assembled inputs has returned.
Called == call.caller # 0 /\ ret # NoRet

Caller == to_identity(call.caller)

\* The supplied Round1 list passes Round1 validation: the payload map is
\* built and the caller's entry is removed from it (contract step 1).
Round1Validated ==
    /\ call.caller # 0
    /\ round3_round1_packages(call.caller, r2sec[call.caller], call.r1).kind = "Ok"

\* The checksum recomputed over the supplied Round1 list (contract step 2).
Expected == round2_input_checksum(call.r1)

ChecksumOk(i) == call.r2[i].checksum = Expected

RecipientOk(i) == call.r2[i].recipient_identity = Caller

SenderFresh(i) == \A j \in 1..(i - 1) : call.r2[j].sender_identity # call.r2[i].sender_identity

\* The i-th supplied Round2 package passes the three checks of step 3.
Passes(i) == ChecksumOk(i) /\ RecipientOk(i) /\ SenderFresh(i)

\* The i-th supplied Round2 package is the first that does not pass.
FirstFailing(i) == ~Passes(i) /\ \A j \in 1..(i - 1) : Passes(j)

IsErr(r, e) == r.kind = "Err" /\ r.err = e

\* C1 as stated: with a validated Round1 list, a Round2 package with a wrong
\* checksum anywhere in the list makes round3 return ChecksumError.
C1_AnyBadChecksumIsChecksumError ==
    (Called /\ Round1Validated /\ \E i \in DOMAIN call.r2 : ~ChecksumOk(i))
        => IsErr(ret, "ChecksumError")

\* C1 amended: with a validated Round1 list, a Round2 package with a wrong
\* checksum makes round3 return an error and no key; the error is
\* ChecksumError when every package listed before the first one with a wrong
\* checksum passes the recipient and duplicate-sender checks.
C1_FirstBadChecksumIsChecksumError ==
    (Called /\ Round1Validated)
        => /\ (\E i \in DOMAIN call.r2 : ~ChecksumOk(i)) => ret.kind = "Err"
           /\ (\E i \in DOMAIN call.r2 : FirstFailing(i) /\ ~ChecksumOk(i))
                  => IsErr(ret, "ChecksumError")

\* C1 witness: three participants, the first Round2 package untampered, the
\* second with a tampered checksum, and round3 returned ChecksumError.
C1_Witness ==
    /\ Called /\ Round1Validated
    /\ max_signers = 3 /\ Len(call.r2) = 2
    /\ Passes(1) /\ ~ChecksumOk(2) /\ RecipientOk(2) /\ SenderFresh(2)
    /\ IsErr(ret, "ChecksumError")

\* C2: the participants that completed round3 on the session's packages all
\* succeeded and hold the same GroupSecretKey and the same PublicKeyPackage.
C2_SameGroupKeys ==
    \A p \in DOMAIN keys :
        /\ keys[p].kind = "Ok"
        /\ \A q \in DOMAIN keys :
               /\ keys[q].kind = "Ok"
               /\ keys[p].value.gsk = keys[q].value.gsk
               /\ keys[p].value.public_key_package = keys[q].value.public_key_package

\* C2 witness: a session of three participants with threshold 2 completed.
C2_Witness ==
    /\ max_signers = 3 /\ min_signers = 2
    /\ DOMAIN keys = Participants
    /\ \A p \in Participants : keys[p].kind = "Ok"

\* C3 as stated: round3 always returns Ok or an explicit Err; it never panics.
C3_NeverPanics == Called => ret.kind \in {"Ok", "Err"}

\* C3 failing input: every Round1 package of the session and no Round2 package.
C3_Witness ==
    /\ Called /\ call.r1 = SessionRound1 /\ call.r2 = <<>>
    /\ ret.kind = "Panic"

\* C4 as stated: with a validated Round1 list, a Round2 package with a matching
\* checksum and a recipient other than the caller makes round3 return InvalidInput.
C4_WrongRecipientIsInvalidInput ==
    (Called /\ Round1Validated
        /\ \E i \in DOMAIN call.r2 : ChecksumOk(i) /\ ~RecipientOk(i))
        => IsErr(ret, "InvalidInput")

\* C4 amended: with a validated Round1 list, a Round2 package with a matching
\* checksum and a recipient other than the caller makes round3 return an error
\* and no key; the error is InvalidInput when no package listed before it has
\* a wrong checksum.
C4_WrongRecipientAfterGoodChecksums ==
    (Called /\ Round1Validated)
        => \A i \in DOMAIN call.r2 :
               (ChecksumOk(i) /\ ~RecipientOk(i))
                   => /\ ret.kind = "Err"
                      /\ (\A j \in 1..(i - 1) : ChecksumOk(j)) => IsErr(ret, "InvalidInput")

\* C4 witness: the first failing package has a matching checksum and a wrong
\* recipient, and round3 returned InvalidInput for the recipient.
C4_Witness ==
    /\ Called /\ Round1Validated
    /\ \E i \in DOMAIN call.r2 : FirstFailing(i) /\ ChecksumOk(i) /\ ~RecipientOk(i)
    /\ IsErr(ret, "InvalidInput")
    /\ ret.msg = "public package does not have the correct recipient identity"

\* C5: with a validated Round1 list, when the loop reaches a Round2 package
\* that passes the checksum and recipient checks and has the sender of an
\* earlier accepted package, round3 returns InvalidInput for the duplicate,
\* whether the two payloads are equal or not.
C5_DuplicateSenderIsInvalidInput ==
    (Called /\ Round1Validated
        /\ \E i \in DOMAIN call.r2 :
               FirstFailing(i) /\ ChecksumOk(i) /\ RecipientOk(i) /\ ~SenderFresh(i))
        => /\ IsErr(ret, "InvalidInput")
           /\ ret.msg = "multiple public packages provided for identity"

\* C5 witness: two packages of one sender with different payloads, both
\* passing the checksum and recipient checks.
C5_Witness ==
    /\ Called /\ Round1Validated
    /\ \E i, j \in DOMAIN call.r2 :
           /\ j < i /\ FirstFailing(i) /\ ChecksumOk(i) /\ RecipientOk(i)
           /\ call.r2[j].sender_identity = call.r2[i].sender_identity
           /\ call.r2[j].frost_package # call.r2[i].frost_package
    /\ IsErr(ret, "InvalidInput")

\* Every supplied Round1 package is the session's package of a participant
\* other than the caller.
OnlyOthersRound1 ==
    \A i \in DOMAIN call.r1 : call.r1[i] \in Range(SessionRound1) /\ call.r1[i].identity # Caller

NoRepeatedRound1 ==
    \A i, j \in DOMAIN call.r1 : i # j => call.r1[i] # call.r1[j]

\* C6 as stated: a Round1 list made only of the other participants' packages
\* makes round3 return InvalidInput.
C6_MissingOwnIsInvalidInput ==
    (Called /\ OnlyOthersRound1) => IsErr(ret, "InvalidInput")

\* C6 amended: a Round1 list made only of the other participants' packages,
\* each at most once, makes round3 return InvalidInput.
C6_MissingOwnOnceIsInvalidInput ==
    (Called /\ OnlyOthersRound1 /\ NoRepeatedRound1) => IsErr(ret, "InvalidInput")

\* C6 witness: the caller passed the Round1 packages of all other participants
\* of a session of three, without its own.
C6_Witness ==
    /\ Called /\ OnlyOthersRound1 /\ NoRepeatedRound1
    /\ max_signers = 3 /\ Len(call.r1) = 2
    /\ IsErr(ret, "InvalidInput")

\* The checksum recomputed from the identities of the supplied Round1 packages.
ExpectedRound1 ==
    round1_input_checksum(r2sec[call.caller].min_signers,
                          [i \in DOMAIN call.r1 |-> call.r1[i].identity])

\* The identities of the supplied Round1 packages do not hash to the checksum
\* the packages carry.
Round1ChecksumsDiffer ==
    /\ call.r1 # <<>>
    /\ \A i \in DOMAIN call.r1 : call.r1[i].checksum # ExpectedRound1

\* C7 as stated: a Round1 list whose identities do not hash to the checksum
\* the packages carry makes round3 return ChecksumError.
C7_WrongRound1SetIsChecksumError ==
    (Called /\ Round1ChecksumsDiffer) => IsErr(ret, "ChecksumError")

\* C7 amended: a Round1 list of exactly max_signers packages whose identities
\* do not hash to the checksum the packages carry makes round3 return
\* ChecksumError, whatever the Round2 packages are.
C7_WrongRound1SetOfFullLength ==
    (Called /\ Round1ChecksumsDiffer /\ Len(call.r1) = r2sec[call.caller].max_signers)
        => IsErr(ret, "ChecksumError")

\* C7 witness: one participant's package twice in place of another's, with
\* the Round2 packages the session addressed to the caller.
C7_Witness ==
    /\ Called /\ Round1ChecksumsDiffer
    /\ Len(call.r1) = max_signers
    /\ \A i \in DOMAIN call.r1 : call.r1[i] \in Range(SessionRound1)
    /\ \E i, j \in DOMAIN call.r1 : i # j /\ call.r1[i] = call.r1[j]
    /\ call.r2 = Round2List(AddressedTo(call.caller))
    /\ IsErr(ret, "ChecksumError")

\* The caller cannot decrypt the shard of some supplied Round1 package.
SomeShardUndecryptable ==
    \E i \in DOMAIN call.r1 : group_secret_key_shard(call.r1[i], call.caller).kind # "Ok"

\* Steps 1 to 4 of the contract pass: every Round2 package is accepted and
\* there are as many of them as Round1 payloads.
ReachesFinalize ==
    /\ Round1Validated
    /\ \A i \in DOMAIN call.r2 : Passes(i)
    /\ Len(call.r2) = Len(call.r1) - 1

\* C8 as stated: when a shard cannot be decrypted, round3 returns an error.
C8_DecryptionFailureIsError ==
    (Called /\ ReachesFinalize /\ SomeShardUndecryptable) => ret.kind = "Err"

\* C8 failing input: the call reached the decryption of the shards.
C8_Witness ==
    /\ Called /\ ReachesFinalize /\ SomeShardUndecryptable
    /\ ret = Panic("cannot decrypt gsk shard")

\* ====================================== properties of the signing commitment
Parsed == sc.pc = "parsed"

\* The fields of the wire parse: enough bytes, an identity, two curve points.
FieldsParse(wire) ==
    /\ Len(wire) >= SIGNING_COMMITMENT_LEN
    /\ IdentityDeserialize(SubSeq(wire, 65, 193)).kind = "Ok"
    /\ SubSeq(wire, 194, 225)[32] < 128
    /\ SubSeq(wire, 226, 257)[32] < 128

\* The first 64 bytes of the wire are the signature, by the identity on the
\* wire, of the 177 bytes that follow.
WireSignatureVerifies(wire) ==
    SubSeq(wire, 1, 64) =
        SecretSign(SecretOf(IdentityDeserialize(SubSeq(wire, 65, 193)).value),
                   SubSeq(wire, 65, 265))

\* C9: every commitment obtained from from_secrets or from a successful
\* deserialize_from passes verify_authenticity, and deserialize_from returns
\* an error for every byte string whose fields parse but whose signature
\* does not verify.
C9_ObtainedCommitmentsAreAuthentic ==
    /\ sc.pc = "created" => verify_authenticity(sc.commitment).kind = "Ok"
    /\ (Parsed /\ sc.parsed.kind = "Ok") => verify_authenticity(sc.parsed.value).kind = "Ok"
    /\ (Parsed /\ FieldsParse(sc.wire) /\ ~WireSignatureVerifies(sc.wire))
            => sc.parsed.kind = "Err"

\* C9 case: a wire whose fields parse and whose signature does not verify was read.
C9_Witness ==
    /\ Parsed /\ sc.altered
    /\ FieldsParse(sc.wire) /\ ~WireSignatureVerifies(sc.wire)
    /\ sc.parsed.kind = "Err"

\* C10: deserialize_from(c.serialize()) succeeds and returns a value equal to c.
C10_SerializeRoundTrip ==
    (Parsed /\ ~sc.altered) => sc.parsed = Ok(sc.commitment)

\* C10 case: the unaltered serialization of a commitment was read back.
C10_Witness ==
    /\ Parsed /\ ~sc.altered
    /\ sc.wire = serialize(sc.commitment)
    /\ sc.parsed.kind = "Ok"

\* The wire differs from the serialization of the commitment in exactly one byte.
SingleByteAltered ==
    \E original \in {serialize(sc.commitment)} :
        /\ Len(sc.wire) = Len(original)
        /\ Cardinality({i \in DOMAIN sc.wire : sc.wire[i] # original[i]}) = 1

\* A byte of the checksum region of the wire differs from the serialization.
ChecksumRegionAltered ==
    \E original \in {serialize(sc.commitment)} :
        \E i \in (SIGNING_COMMITMENT_LEN - CHECKSUM_LEN + 1)..SIGNING_COMMITMENT_LEN :
            sc.wire[i] # original[i]

\* C11: the serialization of a commitment of from_secrets with one byte
\* altered, at whatever position, is rejected by deserialize_from with an error.
C11_AlteredByteIsRejected ==
    (Parsed /\ SingleByteAltered) => sc.parsed.kind = "Err"

\* C11 case: a byte of the checksum region was altered and the wire was read.
C11_Witness ==
    /\ Parsed /\ SingleByteAltered
    /\ ChecksumRegionAltered
    /\ sc.parsed.kind = "Err"

\* The wire is the untouched serialization of the commitment.
Untouched == sc.pc \in {"serialized", "parsed"} /\ ~sc.altered

\* C12: serialize writes signature, identity, hiding commitment, binding
\* commitment and the little-endian checksum, in this order, filling exactly
\* SIGNING_COMMITMENT_LEN = signature width + identity width + 2 * 32 + 8
\* bytes; deserialize_from reads the same fields with the same widths, so the
\* serialization of a successfully deserialized byte string is that string.
C12_FixedLayout ==
    /\ SIGNING_COMMITMENT_LEN = SIGNATURE_BYTE_SIZE + IDENTITY_LEN + 2 * 32 + 8
    /\ Untouched =>
           /\ Len(sc.wire) = SIGNING_COMMITMENT_LEN
           /\ SubSeq(sc.wire, 1, 64) = sc.commitment.signature
           /\ SubSeq(sc.wire, 65, 193) = IdentitySerialize(sc.commitment.identity)
           /\ SubSeq(sc.wire, 194, 225) = sc.commitment.raw_commitments.hiding
           /\ SubSeq(sc.wire, 226, 257) = sc.commitment.raw_commitments.binding
           /\ \A k \in 1..4 :
                  sc.commitment.checksum[k] =
                      sc.wire[256 + 2 * k] + 256 * sc.wire[257 + 2 * k]
    /\ (Parsed /\ sc.parsed.kind = "Ok") => serialize(sc.parsed.value) = sc.wire

\* C12 case: a serialization with a checksum whose two bytes of a limb differ
\* was read back successfully.
C12_Witness ==
    /\ Parsed /\ Untouched /\ sc.parsed.kind = "Ok"
    /\ sc.wire[258] # sc.wire[259]
    /\ serialize(sc.parsed.value) = sc.wire

\* C13: a commitment whose signature is replaced by the signature of an
\* unrelated secret over the same authenticated payload fails verify_authenticity.
C13_UnrelatedSignatureIsRejected ==
    sc.pc = "forged" => IsErr(sc.verified, "SignatureError")

\* C13 case: identity, nonce commitments and checksum are those of the
\* commitment, the signature is the unrelated secret's, and verification failed.
C13_Witness ==
    /\ sc.pc = "forged"
    /\ sc.unrelated_secret # sc.secret
    /\ [sc.invalid_commitment EXCEPT !.signature = sc.commitment.signature] = sc.commitment
    /\ sc.invalid_commitment.signature # sc.commitment.signature
    /\ sc.verified.kind = "Err"

C15_ChecksumIgnoresOrderAndRepetition ==
    (/\ sc.pc = "checked"
     /\ sc.against.tx = sc.tx
     /\ Range(sc.against.signers) = Range(sc.signers))
        => sc.checked = Ok(TRUE)

\* C15 case: a one-signer-twice or two-signer list was checked against a
\* different list of the same identities (reordered, or with a repetition).
C15_Witness ==
    /\ sc.pc = "checked"
    /\ sc.against.tx = sc.tx
    /\ Range(sc.against.signers) = Range(sc.signers)
    /\ sc.against.signers # sc.signers
    /\ Cardinality(Range(sc.signers)) = 2
    /\ sc.checked.kind = "Ok"

\* The bytes input_checksum writes to the hasher.
HashedBytes(transaction_hash, signing_participants) ==
    LET ids == CanonicalIdentities(signing_participants)
        RECURSIVE Written(_)
        Written(k) == IF k = 0 THEN transaction_hash
                      ELSE Written(k - 1) \o IdentitySerialize(ids[k])
    IN  Written(Len(ids))

\* C16: verify_checksum(h', L') returns ChecksumError::SigningCommitmentError
\* for a commitment created with (h, L) whenever h' differs from h or the
\* identity set of L' differs from that of L.
C16_OtherSessionIsChecksumError ==
    (/\ sc.pc = "checked"
     /\ \/ sc.against.tx # sc.tx
        \/ Range(sc.against.signers) # Range(sc.signers))
        => sc.checked = Err("ChecksumError", "SigningCommitmentError")

\* C16 case: the commitment was created for (h, [a, b]) and checked against
\* (h || a, [b]), a the smaller identity: another transaction hash and
\* another signer set, the same bytes hashed, and verify_checksum returns Ok.
C16_Witness ==
    /\ sc.pc = "checked"
    /\ sc.against.tx # sc.tx
    /\ Range(sc.against.signers) # Range(sc.signers)
    /\ Cardinality(Range(sc.signers)) = 2
    /\ Cardinality(Range(sc.against.signers)) = 1
    /\ HashedBytes(sc.against.tx, sc.against.signers) = HashedBytes(sc.tx, sc.signers)
    /\ sc.checked = Ok(TRUE)

\* C17: two commitments created for the same transaction hash and signer
\* list have equal checksums, whatever the secrets and shares of their
\* creators; when the secrets differ, the identities, the signatures and so
\* the commitments differ.
C17_ChecksumIndependentOfCreator ==
    sc.pc = "repeated"
        => /\ sc.second.checksum = sc.commitment.checksum
           /\ sc.second_secret # sc.secret
                => /\ sc.second.identity # sc.commitment.identity
                   /\ sc.second.signature # sc.commitment.signature
                   /\ sc.second # sc.commitment

\* C17 case: another signer with another share committed to the same
\* transaction hash and the same two signers.
C17_Witness ==
    /\ sc.pc = "repeated"
    /\ sc.second_secret # sc.secret
    /\ sc.second_share # sc.share
    /\ Cardinality(Range(sc.signers)) = 2
    /\ sc.second.checksum = sc.commitment.checksum
    /\ sc.second # sc.commitment

\* The number of Round2 payloads accepted by the loop of round3 when every
\* supplied package passes: one per package, the senders being distinct.
AcceptedRound2 == Cardinality({call.r2[i].sender_identity : i \in DOMAIN call.r2})

\* The number of Round1 payloads left after the caller's entry is removed.
RemainingRound1 ==
    Cardinality(DOMAIN round3_round1_packages(call.caller, r2sec[call.caller], call.r1).value)

\* C18 as stated: whenever every supplied Round2 package passes the checksum,
\* recipient and duplicate-sender checks, the number of accepted Round2
\* payloads equals the number of remaining Round1 payloads, and the count
\* check of round3 does not fail.
C18_AcceptedCountEqualsRound1Count ==
    (Called /\ Round1Validated /\ \A i \in DOMAIN call.r2 : Passes(i))
        => /\ AcceptedRound2 = RemainingRound1
           /\ ret.kind # "Panic"

\* C18 failing input: three participants, the complete Round1 list and only
\* one of the two Round2 packages addressed to the caller; the package passes
\* the three checks and the count check aborts.
C18_Witness ==
    /\ Called /\ Round1Validated
    /\ max_signers = 3 /\ call.r1 = SessionRound1
    /\ Len(call.r2) = 1 /\ Passes(1)
    /\ AcceptedRound2 = 1 /\ RemainingRound1 = 2
    /\ ret = Panic("assertion failed: round1_frost_packages.len() == round2_frost_packages.len()")

\* The Round2 payload map when the loop of round3 reaches the i-th package.
Round2MapBefore(i) ==
    round3_round2_packages(Caller, Expected, EmptyMap, SubSeq(call.r2, 1, i - 1))

\* The loop reaches the i-th supplied Round2 package.
Reached(i) == \A j \in 1..(i - 1) : Passes(j)

\* C19: a Round2 package reached by the loop that has a wrong checksum and
\* also a wrong recipient or a repeated sender is rejected with ChecksumError,
\* not InvalidInput: the loop body returns the error without a payload map,
\* and round3 returns it.
C19_ChecksumComparedFirst ==
    (Called /\ Round1Validated)
        => \A i \in DOMAIN call.r2 :
               (Reached(i) /\ ~ChecksumOk(i) /\ (~RecipientOk(i) \/ ~SenderFresh(i)))
                   => /\ round3_accept_package(Caller, Expected, Round2MapBefore(i).value, call.r2[i])
                            = Err("ChecksumError", "DkgPublicPackageError")
                      /\ ret = Err("ChecksumError", "DkgPublicPackageError")

\* C19 case: three participants, the first Round2 package passes, the second
\* has a wrong checksum and is addressed to another participant.
C19_Witness ==
    /\ Called /\ Round1Validated
    /\ max_signers = 3 /\ Len(call.r2) = 2
    /\ Passes(1) /\ ~ChecksumOk(2) /\ ~RecipientOk(2)
    /\ IsErr(ret, "ChecksumError")

\* The senders of the supplied Round2 packages that are addressed to the
\* caller and bound to the supplied Round1 list.
BoundSenders ==
    {call.r2[i].sender_identity : i \in {j \in DOMAIN call.r2 : ChecksumOk(j) /\ RecipientOk(j)}}

\* The participant q has produced its Round2 package addressed to p.
ProducedFor(q, p) ==
    /\ q \in DOMAIN r2pub
    /\ \E pkg \in r2pub[q] : pkg.recipient_identity = to_identity(p)

\* C20: round3 never returns Ok when fewer than n-1 Round2 packages of
\* distinct senders, addressed to the caller and bound to the Round1 list,
\* are supplied, or when fewer than n Round1 packages are; a participant of
\* the session holds a key only after all n Round1 packages and the Round2
\* packages of the n-1 others addressed to it have been produced.
C20_NoKeyWithoutAllInputs ==
    /\ (Called /\ (Cardinality(BoundSenders) < max_signers - 1 \/ Len(call.r1) < max_signers))
            => ret.kind # "Ok"
    /\ \A p \in DOMAIN keys :
            keys[p].kind = "Ok"
                => /\ DOMAIN r1pub = Participants
                   /\ \A q \in Participants \ {p} : ProducedFor(q, p)

\* C20 case: three participants, the complete Round1 list, two Round2
\* packages supplied of which only one is addressed to the caller and bound
\* to the Round1 list; round3 returned no key.
C20_Witness ==
    /\ Called /\ Round1Validated
    /\ max_signers = 3 /\ call.r1 = SessionRound1
    /\ Len(call.r2) = 2 /\ Cardinality(BoundSenders) = 1
    /\ ret.kind # "Ok"
    /\ \E p \in DOMAIN keys : keys[p].kind = "Ok"

\* The Round1 payload map round3 hands to part3.
Round1Payloads == round3_round1_packages(call.caller, r2sec[call.caller], call.r1).value

\* The Round2 payload map round3 hands to part3.
Round2Payloads == round3_round2_packages(Caller, Expected, EmptyMap, call.r2).value

\* The payload of every supplied Round1 package, by the identifier of its sender.
SuppliedRound1Payloads ==
    [f \in {to_frost_identifier(call.r1[i].identity) : i \in DOMAIN call.r1} |->
        (CHOOSE pkg \in Range(call.r1) : to_frost_identifier(pkg.identity) = f).frost_package]

\* The plaintext shard of every supplied Round1 package, in the order of the list.
SuppliedShards == [i \in DOMAIN call.r1 |-> call.r1[i].gsk_shard.plaintext]

\* C21: the Round1 payload map handed to part3 has no entry for the caller:
\* it is the map of the supplied Round1 packages with exactly the caller's
\* entry removed and every other entry unchanged; the group secret key is
\* combined from the shards of all supplied Round1 packages, the caller's
\* own included.
C21_OwnRound1EntryRemovedOnly ==
    (Called /\ ReachesFinalize)
        => /\ to_frost_identifier(Caller) \notin DOMAIN Round1Payloads
           /\ DOMAIN Round1Payloads
                  = (DOMAIN SuppliedRound1Payloads) \ {to_frost_identifier(Caller)}
           /\ \A f \in DOMAIN Round1Payloads : Round1Payloads[f] = SuppliedRound1Payloads[f]
           /\ \E i \in DOMAIN call.r1 : call.r1[i].identity = Caller
           /\ ret.kind = "Ok"
                  => /\ ret.value.gsk = GroupSecretKeyShardCombine(SuppliedShards)
                     /\ ret.value.key_package
                            = part3(r2sec[call.caller],
                                    MapRemove(SuppliedRound1Payloads, to_frost_identifier(Caller)),
                                    Round2Payloads).value.key_package

\* C21 case: three participants; round3 reached part3 and returned a key
\* whose group secret combines three shards, while part3 saw two payloads.
C21_Witness ==
    /\ Called /\ ReachesFinalize
    /\ max_signers = 3 /\ Len(call.r1) = 3
    /\ Cardinality(DOMAIN Round1Payloads) = 2
    /\ ret.kind = "Ok"
    /\ Len(SuppliedShards) = 3
    /\ ret.value.gsk = GroupSecretKeyShardCombine(SuppliedShards)

\* C22 as stated: whenever round3 reaches part3, the senders of the accepted
\* Round2 payloads are exactly the keys of the Round1 payload map handed to
\* it; none is the caller or an identity without a supplied Round1 package.
C22_AcceptedSendersAreRound1Senders ==
    (Called /\ ReachesFinalize)
        => /\ DOMAIN Round2Payloads = DOMAIN Round1Payloads
           /\ \A i \in DOMAIN call.r2 :
                  /\ call.r2[i].sender_identity # Caller
                  /\ \E j \in DOMAIN call.r1 :
                         call.r1[j].identity = call.r2[i].sender_identity

\* C22 amended: whenever round3 returns Ok, the senders of the accepted
\* Round2 payloads are exactly the keys of the Round1 payload map handed to
\* part3; when round3 reaches part3 with other senders (the caller itself,
\* an identity without a supplied Round1 package), round3 returns the
\* FrostError of part3.
C22_OtherSendersAreFrostError ==
    (Called /\ ReachesFinalize)
        => /\ ret.kind = "Ok" => DOMAIN Round2Payloads = DOMAIN Round1Payloads
           /\ DOMAIN Round2Payloads # DOMAIN Round1Payloads => IsErr(ret, "FrostError")

\* C22 case: three participants; one of the two accepted Round2 packages is
\* sent by the caller itself, the call reached part3 and returned FrostError.
C22_Witness ==
    /\ Called /\ ReachesFinalize
    /\ max_signers = 3 /\ Len(call.r2) = 2
    /\ \E i \in DOMAIN call.r2 : call.r2[i].sender_identity = Caller
    /\ DOMAIN Round2Payloads # DOMAIN Round1Payloads
    /\ IsErr(ret, "FrostError")

\* The permutations of 1..n.
OrdersOf(n) == {f \in [1..n -> 1..n] : \A i, j \in 1..n : f[i] = f[j] => i = j}

\* The list s in the order f.
Permuted(s, f) == [i \in DOMAIN s |-> s[f[i]]]

\* The results of round3 on the call's inputs listed in every order.
PermutedResults ==
    {round3(call.caller, r2sec[call.caller], Permuted(call.r1, f), Permuted(call.r2, g)) :
        f \in OrdersOf(Len(call.r1)), g \in OrdersOf(Len(call.r2))}

\* The results of round3 with the Round1 list in every order, the Round2
\* list as it is.
PermutedRound1Results ==
    {round3(call.caller, r2sec[call.caller], Permuted(call.r1, f), call.r2) :
        f \in OrdersOf(Len(call.r1))}

\* What the caller of round3 observes: the keys, the error class, or the abort.
Outcome(r) == IF r.kind = "Err" THEN <<"Err", r.err>> ELSE r

\* Some supplied Round2 package has a wrong checksum.
SomeChecksumFailure == \E i \in DOMAIN call.r2 : ~ChecksumOk(i)

\* Some supplied Round2 package with a matching checksum is addressed to
\* another recipient or has the sender of another one with a matching checksum.
SomeInputFailure ==
    \E i \in DOMAIN call.r2 :
        /\ ChecksumOk(i)
        /\ \/ ~RecipientOk(i)
           \/ \E j \in DOMAIN call.r2 \ {i} :
                  ChecksumOk(j) /\ call.r2[j].sender_identity = call.r2[i].sender_identity

====
